---- MODULE Spec2Model ----
(***************************************************************************)
(* Model of build_SALT_data.py: a script that recreates four SQLite tables *)
(* and bulk-loads four parquet files into them, one transaction per table, *)
(* with insert_dataframe_in_chunks.                                        *)
(*                                                                         *)
(* Three specifications:                                                   *)
(*   Spec      the whole script, from sqlite3.connect to conn.close()      *)
(*   SpecRerun the whole script, started once more after a complete run    *)
(*             over the same source files                                  *)
(*   SpecLoad  insert_dataframe_in_chunks alone, called once and then once *)
(*             more with the same arguments, on a store with prior rows    *)
(***************************************************************************)
EXTENDS Integers, Sequences, FiniteSets, TLC

\* ------------------------------------------------------------------ bounds
\* Most rows of a DataFrame passed to the function in the loader-only runs.
MaxRows == 3
\* Most rows of a source file in the whole-script runs.
MaxFileRows == 2
\* Largest chunk_size tried; chunk sizes are 1..MaxChunk.
MaxChunk == 2

\* ------------------------------------------------------------------ values
\* SQL NULL (Python None) in a column.
NULL == 0

\* Key values of the whole-script runs: RunIds in the single-column primary
\* keys, RunKeys in the foreign-key columns.
RunIds == {1}
RunKeys == {NULL, 1}

Address == "I_AddrOrgNamePostalAddress"
Customer == "I_Customer"
SalesDocument == "I_SalesDocument"
SalesDocumentItem == "I_SalesDocumentItem"

TableNames == {Address, Customer, SalesDocument, SalesDocumentItem}

\* The party-role columns of I_SalesDocumentItem.
PartyColumns == {"SOLDTOPARTY", "SHIPTOPARTY", "BILLTOPARTY", "PAYERPARTY"}

\* ------------------------------------------------------------------ schema
\* PRIMARY KEY columns of each table, as the CREATE TABLE statements declare.
PrimaryKey(t) ==
    CASE t = Address -> <<"ADDRESSID">>
      [] t = Customer -> <<"CUSTOMER">>
      [] t = SalesDocument -> <<"SALESDOCUMENT">>
      [] t = SalesDocumentItem -> <<"SALESDOCUMENT", "SALESDOCUMENTITEM">>

\* FOREIGN KEY clauses of each table: <<column, referenced table, referenced column>>.
ForeignKeys(t) ==
    CASE t = Address -> {}
      [] t = Customer -> {<<"ADDRESSID", Address, "ADDRESSID">>}
      [] t = SalesDocument -> {}
      [] t = SalesDocumentItem ->
            {<<"SALESDOCUMENT", SalesDocument, "SALESDOCUMENT">>}
            \cup {<<c, Customer, "CUSTOMER">> : c \in PartyColumns}

\* The tables whose FOREIGN KEY clauses reference table t.
Children(t) == {c \in TableNames : \E fk \in ForeignKeys(c) : fk[2] = t}

\* Mutant: a schema step without the DROP TABLE IF EXISTS statements.
SchemaScript_noDrop ==
    << <<"CREATE", "I_SalesDocument">>,
       <<"CREATE", "I_SalesDocumentItem">>,
       <<"CREATE", "I_Customer">>,
       <<"CREATE", "I_AddrOrgNamePostalAddress">> >>

\* Mutant: the tables dropped in the order they are created.
SchemaScript_dropAsCreated ==
    << <<"DROP", "I_SalesDocument">>,
       <<"DROP", "I_SalesDocumentItem">>,
       <<"DROP", "I_Customer">>,
       <<"DROP", "I_AddrOrgNamePostalAddress">>,
       <<"CREATE", "I_SalesDocument">>,
       <<"CREATE", "I_SalesDocumentItem">>,
       <<"CREATE", "I_Customer">>,
       <<"CREATE", "I_AddrOrgNamePostalAddress">> >>

\* The statements of the schema step, in source order.
SchemaScript ==
    << <<"DROP", SalesDocumentItem>>,
       <<"DROP", SalesDocument>>,
       <<"DROP", Customer>>,
       <<"DROP", Address>>,
       <<"CREATE", SalesDocument>>,
       <<"CREATE", SalesDocumentItem>>,
       <<"CREATE", Customer>>,
       <<"CREATE", Address>> >>

\* Mutant: the customers loaded before the addresses they reference.
LoadOrder_customersFirst ==
    <<"I_Customer", "I_AddrOrgNamePostalAddress", "I_SalesDocument",
      "I_SalesDocumentItem">>

\* Mutant: the entities loaded in the order their file paths are configured.
LoadOrder_asConfigured ==
    <<"I_SalesDocument", "I_SalesDocumentItem", "I_Customer",
      "I_AddrOrgNamePostalAddress">>

\* The entities in the order the script reads and loads them.
LoadOrder == <<Address, Customer, SalesDocument, SalesDocumentItem>>

\* ------------------------------------------------------------------ store
\* The key of a row: the values of the primary-key columns.
KeyOf(t, row) == [i \in 1..Len(PrimaryKey(t)) |-> row[PrimaryKey(t)[i]]]

KeyHasNull(k) == \E i \in 1..Len(k) : k[i] = NULL

\* A uniqueness conflict: an existing row with the same key. SQLite treats
\* NULLs as distinct, and a TEXT PRIMARY KEY column admits NULL.
Conflicts(tbl, t, row) ==
    /\ ~KeyHasNull(KeyOf(t, row))
    /\ \E i \in 1..Len(tbl) : KeyOf(t, tbl[i]) = KeyOf(t, row)

\* Mutant: plain INSERT semantics without the uniqueness check.
InsertOrIgnore_append(tbl, t, row) == Append(tbl, row)

\* INSERT OR IGNORE of one row into the rows of table t.
InsertOrIgnore(tbl, t, row) ==
    IF Conflicts(tbl, t, row) THEN tbl ELSE Append(tbl, row)

\* Mutant: no foreign-key check (enforcement left off).
ForeignKeysHold_off(rows, t, row) == TRUE

\* Immediate foreign-key check of one row against the current tables.
ForeignKeysHold(rows, t, row) ==
    \A fk \in ForeignKeys(t) :
        \/ row[fk[1]] = NULL
        \/ \E i \in 1..Len(rows[fk[2]]) : rows[fk[2]][i][fk[3]] = row[fk[1]]

\* executemany: one INSERT OR IGNORE per row of the batch, in order. The
\* statement for row failAt raises a store error (failAt = 0: none does). A
\* row whose key conflicts is skipped before its foreign keys are looked at;
\* any other row that violates a foreign key raises IntegrityError when
\* enforcement is on. The rows before the failing one stay inserted in the
\* open transaction.
RECURSIVE InsertRows(_, _, _, _, _, _)
InsertRows(rows, fk_on, t, batch, i, failAt) ==
    IF i > Len(batch) THEN [rows |-> rows, error |-> "none"]
    ELSE IF i = failAt THEN [rows |-> rows, error |-> "OperationalError"]
    ELSE IF /\ fk_on
            /\ ~Conflicts(rows[t], t, batch[i])
            /\ ~ForeignKeysHold(rows, t, batch[i])
         THEN [rows |-> rows, error |-> "IntegrityError"]
    ELSE InsertRows([rows EXCEPT ![t] = InsertOrIgnore(rows[t], t, batch[i])],
                    fk_on, t, batch, i + 1, failAt)

\* Mutant: an executemany in autocommit mode, its rows durable at once.
ExecuteMany_autocommit(c, t, batch, failAt) ==
    LET r == InsertRows(c.rows, c.foreign_keys, t, batch, 1, failAt)
    IN  [conn |-> [c EXCEPT !.rows = r.rows, !.committed = r.rows],
         error |-> r.error]

ExecuteMany(c, t, batch, failAt) ==
    LET r == InsertRows(c.rows, c.foreign_keys, t, batch, 1, failAt)
    IN  [conn |-> [c EXCEPT !.rows = r.rows], error |-> r.error]

\* Mutant: a BEGIN TRANSACTION that opens no transaction.
ExecBegin_noTransaction(c) == [conn |-> c, error |-> "none"]

\* BEGIN TRANSACTION: raises when a transaction is already open.
ExecBegin(c) ==
    IF c.in_transaction
    THEN [conn |-> c, error |-> "OperationalError"]
    ELSE [conn |-> [c EXCEPT !.in_transaction = TRUE], error |-> "none"]

\* Mutant: a COMMIT that makes the rows durable and starts a new transaction.
ExecCommit_chain(c) ==
    IF ~c.in_transaction
    THEN [conn |-> c, error |-> "OperationalError"]
    ELSE [conn |-> [c EXCEPT !.committed = c.rows], error |-> "none"]

\* COMMIT: the rows written in the transaction become the committed rows.
ExecCommit(c) ==
    IF ~c.in_transaction
    THEN [conn |-> c, error |-> "OperationalError"]
    ELSE [conn |-> [c EXCEPT !.in_transaction = FALSE, !.committed = c.rows],
          error |-> "none"]

\* Mutant: a handler that re-raises without undoing the transaction.
ExecRollback_skip(c) == [conn |-> c, error |-> "none"]

\* ROLLBACK: the rows written in the transaction are discarded.
ExecRollback(c) ==
    IF ~c.in_transaction
    THEN [conn |-> c, error |-> "OperationalError"]
    ELSE [conn |-> [c EXCEPT !.in_transaction = FALSE, !.rows = c.committed],
          error |-> "none"]

\* A row of child table ct references a row of table t.
References(rows, ct, crow, t) ==
    \E fk \in ForeignKeys(ct) :
        /\ fk[2] = t
        /\ crow[fk[1]] # NULL
        /\ \E i \in 1..Len(rows[t]) : rows[t][i][fk[3]] = crow[fk[1]]

\* DROP TABLE IF EXISTS t, outside a transaction (autocommit). With foreign
\* keys on, the implicit DELETE raises when a child row references a row of t.
ExecDrop(c, t) ==
    IF t \notin c.exists THEN [conn |-> c, error |-> "none"]
    ELSE IF /\ c.foreign_keys
            /\ \E ct \in Children(t) \cap c.exists :
                  \E i \in 1..Len(c.rows[ct]) : References(c.rows, ct, c.rows[ct][i], t)
         THEN [conn |-> c, error |-> "IntegrityError"]
    ELSE [conn |-> [c EXCEPT !.exists = @ \ {t},
                             !.rows[t] = <<>>,
                             !.committed[t] = <<>>],
          error |-> "none"]

\* CREATE TABLE t, outside a transaction (autocommit). SQLite accepts a
\* FOREIGN KEY clause whose referenced table does not exist yet.
ExecCreate(c, t) ==
    IF t \in c.exists THEN [conn |-> c, error |-> "OperationalError"]
    ELSE [conn |-> [c EXCEPT !.exists = @ \cup {t}], error |-> "none"]

ExecSchema(c, stmt) ==
    IF stmt[1] = "DROP" THEN ExecDrop(c, stmt[2]) ELSE ExecCreate(c, stmt[2])

\* ------------------------------------------------------------------ state
VARIABLES
    conn,           \* the sqlite3 connection and the database behind it
    pc,             \* position of the script (module level)
    step,           \* index into SchemaScript, then into LoadOrder
    CHUNK_SIZE,     \* the configured chunk size
    df,             \* the DataFrame passed to insert_dataframe_in_chunks
    insert_table,   \* the table insert_statement inserts into
    chunk_size,     \* parameter chunk_size
    all_rows,       \* rows the iterator has not yielded yet
    buffer,         \* local buffer
    count_inserted, \* local count_inserted
    lpc,            \* position inside insert_dataframe_in_chunks
    exc,            \* the exception in flight, "none" when there is none
    num_inserted,   \* module-level num_inserted, -1 before the first load
    trace,          \* every store and file operation performed so far
    call_start,     \* Len(trace) when the current call was entered
    at_entry,       \* the rows of every table when the current call was entered
    results         \* one record per finished call of the function: its
                    \* table and DataFrame, how it ended, the table before and after

vars == <<conn, pc, step, CHUNK_SIZE, df, insert_table, chunk_size, all_rows,
          buffer, count_inserted, lpc, exc, num_inserted, trace, call_start,
          at_entry, results>>

locals == <<df, insert_table, chunk_size, all_rows, buffer, count_inserted>>

\* An operation on the store or on a source file: its name, its table, the
\* number of rows it was given, and the error it raised ("none": it succeeded).
Event(op, t, n, error) == [op |-> op, t |-> t, n |-> n, error |-> error]

\* An executemany into table t: a FLUSH event that also keeps the batch that
\* was passed.
Flushed(t, batch, error) ==
    [op |-> "FLUSH", t |-> t, n |-> Len(batch), error |-> error, batch |-> batch]

EmptyTables == [t \in TableNames |-> <<>>]

ClosedConn ==
    [open |-> FALSE, foreign_keys |-> FALSE, in_transaction |-> FALSE,
     exists |-> {}, rows |-> EmptyTables, committed |-> EmptyTables]

\* ------------------------------------------- insert_dataframe_in_chunks
\* Mutant: an off-by-one flush threshold.
BufferFull_late(buf, cs) == Len(buf) = cs + 1

\* len(buffer) == chunk_size
BufferFull(buf, cs) == Len(buf) = cs

\* Mutant: the leftover flush made unconditional.
HasLeftover_always(buf) == TRUE

\* if buffer:
HasLeftover(buf) == buf # <<>>

\* Mutant: counting flushes instead of rows.
CountAfterChunk_one(count, cs) == count + 1

\* count_inserted += chunk_size
CountAfterChunk(count, cs) == count + cs

\* count_inserted += len(buffer)
CountAfterLeftover(count, buf) == count + Len(buf)

\* The events of the current (or last) call of the function.
CallTrace == SubSeq(trace, call_start + 1, Len(trace))

\* Entry of the function with arguments (d, t, cs): the locals are set and
\* BEGIN TRANSACTION is executed, outside the try block.
Enter(d, t, cs) ==
    LET r == ExecBegin(conn) IN
    /\ df' = d
    /\ insert_table' = t
    /\ chunk_size' = cs
    /\ all_rows' = d
    /\ buffer' = <<>>
    /\ count_inserted' = 0
    /\ conn' = r.conn
    /\ call_start' = Len(trace)
    /\ at_entry' = conn.rows
    /\ trace' = Append(trace, Event("BEGIN", t, 0, r.error))
    /\ IF r.error = "none"
       THEN /\ lpc' = "loop"
            /\ exc' = "none"
            /\ UNCHANGED results
       ELSE /\ lpc' = "raised"
            /\ exc' = r.error
            /\ results' = Append(results,
                   [t |-> t, df |-> d, outcome |-> "raised", value |-> 0,
                    begun |-> FALSE,
                    before |-> conn.rows[t], after |-> conn.rows[t]])

\* for row in tqdm(all_rows): buffer.append(row); the test of the buffer length.
LoopNext ==
    /\ lpc = "loop"
    /\ IF all_rows = <<>>
       THEN /\ lpc' = "leftover"
            /\ UNCHANGED <<all_rows, buffer>>
       ELSE /\ buffer' = Append(buffer, Head(all_rows))
            /\ all_rows' = Tail(all_rows)
            /\ lpc' = IF BufferFull(buffer', chunk_size) THEN "flush" ELSE "loop"
    /\ UNCHANGED <<conn, pc, step, CHUNK_SIZE, df, insert_table, chunk_size,
                   count_inserted, exc, num_inserted, trace, call_start, at_entry, results>>

\* The iteration itself raises an Exception.
LoopRaises ==
    /\ lpc = "loop"
    /\ all_rows # <<>>
    /\ exc' = "Exception"
    /\ lpc' = "except"
    /\ UNCHANGED <<conn, pc, step, CHUNK_SIZE, locals, num_inserted, trace,
                   call_start, at_entry, results>>

\* Mutant: a transaction per batch, each full batch committed as it is written.
FlushChunk_perBatch ==
    /\ lpc = "flush"
    /\ \E failAt \in 0..Len(buffer) :
          LET r == ExecuteMany(conn, insert_table, buffer, failAt) IN
          /\ IF r.error = "none"
             THEN /\ conn' = ExecBegin(ExecCommit(r.conn).conn).conn
                  /\ trace' = trace \o
                        <<Flushed(insert_table, buffer, "none"),
                          Event("COMMIT", insert_table, 0, "none"),
                          Event("BEGIN", insert_table, 0, "none")>>
                  /\ buffer' = <<>>
                  /\ count_inserted' = CountAfterChunk(count_inserted, chunk_size)
                  /\ lpc' = "loop"
                  /\ UNCHANGED exc
             ELSE /\ conn' = r.conn
                  /\ trace' = Append(trace,
                         Flushed(insert_table, buffer, r.error))
                  /\ exc' = r.error
                  /\ lpc' = "except"
                  /\ UNCHANGED <<buffer, count_inserted>>
    /\ UNCHANGED <<pc, step, CHUNK_SIZE, df, insert_table, chunk_size, all_rows,
                   num_inserted, call_start, at_entry, results>>

\* Mutant: a flush of the full buffer without buffer.clear().
FlushChunk_noClear ==
    /\ lpc = "flush"
    /\ \E failAt \in 0..Len(buffer) :
          LET r == ExecuteMany(conn, insert_table, buffer, failAt) IN
          /\ conn' = r.conn
          /\ trace' = Append(trace, Flushed(insert_table, buffer, r.error))
          /\ IF r.error = "none"
             THEN /\ count_inserted' = CountAfterChunk(count_inserted, chunk_size)
                  /\ lpc' = "loop"
                  /\ UNCHANGED <<buffer, exc>>
             ELSE /\ exc' = r.error
                  /\ lpc' = "except"
                  /\ UNCHANGED <<buffer, count_inserted>>
    /\ UNCHANGED <<pc, step, CHUNK_SIZE, df, insert_table, chunk_size, all_rows,
                   num_inserted, call_start, at_entry, results>>

\* executemany of a full buffer, buffer.clear(), count_inserted += chunk_size.
FlushChunk ==
    /\ lpc = "flush"
    /\ \E failAt \in 0..Len(buffer) :
          LET r == ExecuteMany(conn, insert_table, buffer, failAt) IN
          /\ conn' = r.conn
          /\ trace' = Append(trace,
                 Flushed(insert_table, buffer, r.error))
          /\ IF r.error = "none"
             THEN /\ buffer' = <<>>
                  /\ count_inserted' = CountAfterChunk(count_inserted, chunk_size)
                  /\ lpc' = "loop"
                  /\ UNCHANGED exc
             ELSE /\ exc' = r.error
                  /\ lpc' = "except"
                  /\ UNCHANGED <<buffer, count_inserted>>
    /\ UNCHANGED <<pc, step, CHUNK_SIZE, df, insert_table, chunk_size, all_rows,
                   num_inserted, call_start, at_entry, results>>

\* if buffer: executemany of the leftover rows, count_inserted += len(buffer),
\* buffer.clear().
FlushLeftover ==
    /\ lpc = "leftover"
    /\ IF HasLeftover(buffer)
       THEN \E failAt \in 0..Len(buffer) :
              LET r == ExecuteMany(conn, insert_table, buffer, failAt) IN
              /\ conn' = r.conn
              /\ trace' = Append(trace,
                     Flushed(insert_table, buffer, r.error))
              /\ IF r.error = "none"
                 THEN /\ count_inserted' = CountAfterLeftover(count_inserted, buffer)
                      /\ buffer' = <<>>
                      /\ lpc' = "commit"
                      /\ UNCHANGED exc
                 ELSE /\ exc' = r.error
                      /\ lpc' = "except"
                      /\ UNCHANGED <<buffer, count_inserted>>
       ELSE /\ lpc' = "commit"
            /\ UNCHANGED <<conn, trace, buffer, count_inserted, exc>>
    /\ UNCHANGED <<pc, step, CHUNK_SIZE, df, insert_table, chunk_size, all_rows,
                   num_inserted, call_start, at_entry, results>>

\* db_connection.execute("COMMIT;") succeeds, and the function returns.
Commit ==
    /\ lpc = "commit"
    /\ LET r == ExecCommit(conn) IN
       /\ conn' = r.conn
       /\ trace' = Append(trace, Event("COMMIT", insert_table, 0, r.error))
       /\ IF r.error = "none"
          THEN /\ lpc' = "returned"
               /\ results' = Append(results,
                      [t |-> insert_table, df |-> df, outcome |-> "returned",
                       value |-> count_inserted, begun |-> TRUE,
                       before |-> at_entry[insert_table],
                       after |-> r.conn.rows[insert_table]])
               /\ UNCHANGED exc
          ELSE /\ lpc' = "except"
               /\ exc' = r.error
               /\ UNCHANGED results
    /\ UNCHANGED <<pc, step, CHUNK_SIZE, locals, num_inserted, call_start, at_entry>>

\* COMMIT raises a store error; the transaction stays open.
CommitRaises ==
    /\ lpc = "commit"
    /\ conn.in_transaction
    /\ trace' = Append(trace, Event("COMMIT", insert_table, 0, "OperationalError"))
    /\ exc' = "OperationalError"
    /\ lpc' = "except"
    /\ UNCHANGED <<conn, pc, step, CHUNK_SIZE, locals, num_inserted, call_start, at_entry,
                   results>>

\* Mutant: a handler for the store's errors only (except sqlite3.Error).
Caught_sqlite(e) == e \in {"OperationalError", "IntegrityError"}

\* except Exception: the handler takes every error the try block can raise
\* here, all of them subclasses of Exception.
Caught(e) == e \in {"Exception", "OperationalError", "IntegrityError"}

\* except Exception: db_connection.execute("ROLLBACK;"); raise
\* An exception the handler does not take leaves the function as it is.
Except ==
    /\ lpc = "except"
    /\ LET r == IF Caught(exc) THEN ExecRollback(conn)
                ELSE [conn |-> conn, error |-> "none"] IN
       /\ conn' = r.conn
       /\ trace' = IF Caught(exc)
                   THEN Append(trace, Event("ROLLBACK", insert_table, 0, r.error))
                   ELSE trace
       /\ exc' = IF r.error = "none" THEN exc ELSE r.error
       /\ results' = Append(results,
              [t |-> insert_table, df |-> df, outcome |-> "raised", value |-> 0,
               begun |-> TRUE,
               before |-> at_entry[insert_table],
               after |-> r.conn.rows[insert_table]])
    /\ lpc' = "raised"
    /\ UNCHANGED <<pc, step, CHUNK_SIZE, locals, num_inserted, call_start, at_entry>>

\* ------------------------------------------------------------------ inputs
\* The DataFrames of at most max rows over a set of rows.
Files(S, max) == UNION {[1..n -> S] : n \in 0..max}

ItemRow(d, sold, ship, bill, payer) ==
    [SALESDOCUMENT |-> d, SALESDOCUMENTITEM |-> 1, SOLDTOPARTY |-> sold,
     SHIPTOPARTY |-> ship, BILLTOPARTY |-> bill, PAYERPARTY |-> payer]

\* Item rows of the whole-script runs: a sales document with its sold-to
\* party alone or with all four parties, or a row with neither document nor
\* party.
RunItemRows ==
    {r \in [SALESDOCUMENT : RunKeys, SALESDOCUMENTITEM : {1},
            SOLDTOPARTY : RunKeys, SHIPTOPARTY : RunKeys,
            BILLTOPARTY : RunKeys, PAYERPARTY : RunKeys] :
        LET given == {c \in PartyColumns : r[c] # NULL}
        IN  IF r.SALESDOCUMENT = NULL THEN given = {}
            ELSE given \in {{"SOLDTOPARTY"}, PartyColumns}}

\* The rows a source file of the whole-script runs may hold.
RunRows(t) ==
    CASE t = Address -> [ADDRESSID : RunIds, COUNTRY : {"DE"}]
      [] t = Customer -> [CUSTOMER : RunIds, ADDRESSID : RunKeys]
      [] t = SalesDocument -> [SALESDOCUMENT : RunIds]
      [] t = SalesDocumentItem -> RunItemRows

\* The rows a DataFrame of the loader-only runs may hold.
LoadRows(t) ==
    CASE t = Address ->
            {[ADDRESSID |-> NULL, COUNTRY |-> "DE"],
             [ADDRESSID |-> 1, COUNTRY |-> "DE"],
             [ADDRESSID |-> 1, COUNTRY |-> "US"],
             [ADDRESSID |-> 2, COUNTRY |-> "DE"]}
      [] t = Customer -> [CUSTOMER : {1, 2}, ADDRESSID : {1, 2}]

LoadTargets == {Address, Customer}

\* Database files left by earlier runs: none, a complete run, a failed run,
\* a run interrupted within its schema step, and a file whose rows were
\* written without enforcement and reference rows that do not exist.
CompleteRows ==
    [t \in TableNames |->
        CASE t = Address -> <<[ADDRESSID |-> 1, COUNTRY |-> "DE"]>>
          [] t = Customer -> <<[CUSTOMER |-> 1, ADDRESSID |-> 1]>>
          [] t = SalesDocument -> <<[SALESDOCUMENT |-> 1]>>
          [] t = SalesDocumentItem -> <<ItemRow(1, 1, 1, 1, 1)>>]

PartialRows == [CompleteRows EXCEPT ![SalesDocument] = <<>>,
                                    ![SalesDocumentItem] = <<>>]

InterruptedTables == {SalesDocument, SalesDocumentItem}

OrphanRows == [CompleteRows EXCEPT ![Address] = <<>>, ![SalesDocument] = <<>>]

PriorStores ==
    {[exists |-> {}, rows |-> EmptyTables],
     [exists |-> TableNames, rows |-> CompleteRows],
     [exists |-> TableNames, rows |-> PartialRows],
     [exists |-> InterruptedTables, rows |-> EmptyTables],
     [exists |-> TableNames, rows |-> OrphanRows]}

\* Table contents before a loader-only run.
LoadPriors ==
    {EmptyTables,
     [EmptyTables EXCEPT ![Address] = CompleteRows[Address]],
     PartialRows}

\* ------------------------------------------------------------------ script
Init ==
    /\ \E p \in PriorStores :
          conn = [ClosedConn EXCEPT !.exists = p.exists, !.rows = p.rows,
                                    !.committed = p.rows]
    /\ pc = "connect"
    /\ step = 0
    /\ CHUNK_SIZE \in 1..MaxChunk
    /\ df = <<>>
    /\ insert_table = Address
    /\ chunk_size = CHUNK_SIZE
    /\ all_rows = <<>>
    /\ buffer = <<>>
    /\ count_inserted = 0
    /\ lpc = "idle"
    /\ exc = "none"
    /\ num_inserted = -1
    /\ trace = <<>>
    /\ call_start = 0
    /\ at_entry = EmptyTables
    /\ results = <<>>

\* conn = sqlite3.connect(sqlite_db_file); PRAGMA foreign_keys = ON
Connect ==
    /\ pc = "connect"
    /\ conn' = [conn EXCEPT !.open = TRUE, !.foreign_keys = TRUE]
    /\ pc' = "schema"
    /\ step' = 1
    /\ trace' = Append(trace, Event("CONNECT", "", 0, "none"))
    /\ UNCHANGED <<CHUNK_SIZE, locals, lpc, exc, num_inserted, call_start, at_entry, results>>

\* One DROP TABLE IF EXISTS or CREATE TABLE statement of the schema step; an
\* error it raises is not caught and ends the script.
ExecSchemaStmt ==
    /\ pc = "schema"
    /\ LET stmt == SchemaScript[step]
           r == ExecSchema(conn, stmt) IN
       /\ conn' = r.conn
       /\ trace' = Append(trace, Event(stmt[1], stmt[2], 0, r.error))
       /\ IF r.error = "none"
          THEN /\ pc' = IF step = Len(SchemaScript) THEN "commit" ELSE "schema"
               /\ step' = step + 1
               /\ UNCHANGED exc
          ELSE /\ pc' = "crashed"
               /\ exc' = r.error
               /\ UNCHANGED step
    /\ UNCHANGED <<CHUNK_SIZE, locals, lpc, num_inserted, call_start, at_entry, results>>

\* conn.commit(): commits the open transaction, if there is one.
SchemaCommit ==
    /\ pc = "commit"
    /\ conn' = IF conn.in_transaction THEN ExecCommit(conn).conn ELSE conn
    /\ pc' = "read"
    /\ step' = 1
    /\ UNCHANGED <<CHUNK_SIZE, locals, lpc, exc, num_inserted, trace, call_start, at_entry,
                   results>>

\* The contents the source file of entity t may have. The script only reads
\* its source files: a file that an earlier load has read still has the
\* contents it had then.
SourceFiles(t) ==
    IF \E k \in 1..Len(results) : results[k].t = t
    THEN {results[CHOOSE k \in 1..Len(results) : results[k].t = t].df}
    ELSE Files(RunRows(t), MaxFileRows)

\* pd.read_parquet(path, columns=...) returns the DataFrame of the file.
ReadParquet ==
    /\ pc = "read"
    /\ \E d \in SourceFiles(LoadOrder[step]) : df' = d
    /\ trace' = Append(trace, Event("READ", LoadOrder[step], Len(df'), "none"))
    /\ pc' = "call"
    /\ UNCHANGED <<conn, step, CHUNK_SIZE, insert_table, chunk_size, all_rows,
                   buffer, count_inserted, lpc, exc, num_inserted, call_start, at_entry,
                   results>>

\* pd.read_parquet raises (file missing, column absent); nothing catches it.
ReadRaises ==
    /\ pc = "read"
    /\ trace' = Append(trace, Event("READ", LoadOrder[step], 0, "ReadError"))
    /\ exc' = "ReadError"
    /\ pc' = "crashed"
    /\ UNCHANGED <<conn, step, CHUNK_SIZE, locals, lpc, num_inserted, call_start, at_entry,
                   results>>

\* num_inserted = insert_dataframe_in_chunks(df, insert_stmt, conn, CHUNK_SIZE)
CallInsert ==
    /\ pc = "call"
    /\ Enter(df, LoadOrder[step], CHUNK_SIZE)
    /\ pc' = "in_call"
    /\ UNCHANGED <<step, CHUNK_SIZE, num_inserted>>

\* The call returned: num_inserted is assigned and printed, and the script
\* goes on to the next entity, or to conn.close() after the last.
PrintInserted ==
    /\ pc = "in_call"
    /\ lpc = "returned"
    /\ num_inserted' = count_inserted
    /\ lpc' = "idle"
    /\ IF step = Len(LoadOrder)
       THEN pc' = "close" /\ UNCHANGED step
       ELSE pc' = "read" /\ step' = step + 1
    /\ UNCHANGED <<conn, CHUNK_SIZE, locals, exc, trace, call_start, at_entry, results>>

\* The script has ended on an exception: nothing at module level catches an
\* error of the schema step or of a read (pc = "crashed"), nor an exception
\* that leaves insert_dataframe_in_chunks.
Crashed == pc = "crashed" \/ (pc = "in_call" /\ lpc = "raised")

\* conn.close()
Close ==
    /\ pc = "close"
    /\ conn' = [conn EXCEPT !.open = FALSE]
    /\ trace' = Append(trace, Event("CLOSE", "", 0, "none"))
    /\ pc' = "done"
    /\ UNCHANGED <<step, CHUNK_SIZE, locals, lpc, exc, num_inserted, call_start, at_entry,
                   results>>

Next ==
    \/ Connect \/ ExecSchemaStmt \/ SchemaCommit \/ ReadParquet \/ ReadRaises
    \/ CallInsert \/ PrintInserted \/ Close
    \/ LoopNext \/ LoopRaises \/ FlushChunk \/ FlushLeftover \/ Commit
    \/ CommitRaises \/ Except

Spec == Init /\ [][Next]_vars

\* ------------------------------------------------------------ two runs
\* The number of the current run of the script: the connections opened so far.
Run == Len(SelectSeq(trace, LAMBDA e : e.op = "CONNECT"))

\* The script is started again after a run that completed: a new process,
\* with the database file and the source files as the first run left them.
RunAgain ==
    /\ pc = "done"
    /\ Run = 1
    /\ pc' = "connect"
    /\ step' = 0
    /\ df' = <<>>
    /\ insert_table' = Address
    /\ chunk_size' = CHUNK_SIZE
    /\ all_rows' = <<>>
    /\ buffer' = <<>>
    /\ count_inserted' = 0
    /\ lpc' = "idle"
    /\ exc' = "none"
    /\ num_inserted' = -1
    /\ UNCHANGED <<conn, CHUNK_SIZE, trace, call_start, at_entry, results>>

NextRerun == Next \/ RunAgain

SpecRerun == Init /\ [][NextRerun]_vars

\* ------------------------------------------------------------ loader only
\* An open connection with the four tables, prior rows in them, and the
\* arguments of the call: a DataFrame, a target table, a chunk size.
InitLoad ==
    /\ \E p \in LoadPriors :
          conn = [open |-> TRUE, foreign_keys |-> TRUE, in_transaction |-> FALSE,
                  exists |-> TableNames, rows |-> p, committed |-> p]
    /\ pc = "harness"
    /\ step = 0
    /\ CHUNK_SIZE \in 1..MaxChunk
    /\ insert_table \in LoadTargets
    /\ df \in Files(LoadRows(insert_table), MaxRows)
    /\ chunk_size = CHUNK_SIZE
    /\ all_rows = <<>>
    /\ buffer = <<>>
    /\ count_inserted = 0
    /\ lpc = "idle"
    /\ exc = "none"
    /\ num_inserted = -1
    /\ trace = <<>>
    /\ call_start = 0
    /\ at_entry = EmptyTables
    /\ results = <<>>

\* insert_dataframe_in_chunks(df, insert_stmt, conn, chunk_size): the call, and
\* its repetition with the same arguments once it has returned or raised.
CallAgain ==
    /\ pc = "harness"
    /\ lpc \in {"idle", "returned", "raised"}
    /\ Len(results) < 2
    /\ Enter(df, insert_table, chunk_size)
    /\ UNCHANGED <<pc, step, CHUNK_SIZE, num_inserted>>

NextLoad ==
    \/ CallAgain
    \/ LoopNext \/ LoopRaises \/ FlushChunk \/ FlushLeftover \/ Commit
    \/ CommitRaises \/ Except

SpecLoad == InitLoad /\ [][NextLoad]_vars

\* ------------------------------------------------------------------ claims
\* The flushes (executemany calls) of the current call, in order.
CallFlushes == SelectSeq(CallTrace, LAMBDA e : e.op = "FLUSH")

\* The current call executed BEGIN TRANSACTION.
CallBegan ==
    /\ Len(CallTrace) > 0
    /\ CallTrace[1] = Event("BEGIN", insert_table, 0, "none")

FailedFlush == \E i \in 1..Len(CallFlushes) : CallFlushes[i].error # "none"

RECURSIVE SumOfSizes(_)
SumOfSizes(es) == IF es = <<>> THEN 0 ELSE Head(es).n + SumOfSizes(Tail(es))

CeilDiv(n, b) == (n + b - 1) \div b

\* C1: when a flush of a call raises, at whatever position among the
\* flushes, the call executes ROLLBACK, leaves with that same error, and the
\* target table holds exactly the rows it held when the call was entered -
\* none of the rows of the call, those of earlier flushes included; a table
\* that was empty is empty again.
C1_FailedFlushRollsBackAll ==
    (lpc = "raised" /\ CallBegan /\ FailedFlush) =>
        /\ CallTrace[Len(CallTrace)] = Event("ROLLBACK", insert_table, 0, "none")
        /\ exc = CallFlushes[Len(CallFlushes)].error
        /\ exc # "none"
        /\ conn.rows[insert_table] = at_entry[insert_table]
        /\ conn.committed[insert_table] = at_entry[insert_table]
        /\ (at_entry[insert_table] = <<>> => Len(conn.rows[insert_table]) = 0)

\* A call on an empty table whose first flush succeeded and whose second
\* flush raised, after the rollback.
C1_Witness ==
    /\ lpc = "raised"
    /\ at_entry[insert_table] = <<>>
    /\ Len(CallFlushes) = 2
    /\ CallFlushes[1].error = "none"
    /\ CallFlushes[2].error # "none"

\* C2: a call that returns has made ceil(N/B) flushes for N rows and chunk
\* size B; the last one has N mod B rows, or B rows when B divides N > 0;
\* N = 0 makes none; no flush is empty.
C2_ChunkBoundaries ==
    lpc = "returned" =>
        LET N == Len(df)
            B == chunk_size
            F == CallFlushes
        IN  /\ Len(F) = CeilDiv(N, B)
            /\ (N = 0 => Len(F) = 0)
            /\ (N > 0 => F[Len(F)].n = IF N % B = 0 THEN B ELSE N % B)
            /\ \A i \in 1..Len(F) : F[i].n # 0

\* A returned call whose row count is a multiple of the chunk size, with
\* more than one flush.
C2_Witness ==
    /\ lpc = "returned"
    /\ Len(df) > chunk_size
    /\ Len(df) % chunk_size = 0
    /\ Len(CallFlushes) = Len(df) \div chunk_size

C4_BatchSizeBound ==
    /\ Len(buffer) <= chunk_size
    /\ \A i \in 1..Len(CallFlushes) :
          /\ CallFlushes[i].n >= 1
          /\ CallFlushes[i].n <= chunk_size
          /\ (i < Len(CallFlushes) => CallFlushes[i].n = chunk_size)

\* A returned call with a full flush followed by a smaller last flush.
C4_Witness ==
    /\ lpc = "returned"
    /\ Len(CallFlushes) = 2
    /\ CallFlushes[1].n = chunk_size
    /\ CallFlushes[2].n < chunk_size

\* C5: the store operations of a call that returns are one BEGIN TRANSACTION,
\* then only flushes, then one COMMIT.
C5_SingleTransaction ==
    lpc = "returned" =>
        LET T == CallTrace IN
        /\ Len(T) >= 2
        /\ T[1] = Event("BEGIN", insert_table, 0, "none")
        /\ T[Len(T)] = Event("COMMIT", insert_table, 0, "none")
        /\ \A i \in 2..(Len(T) - 1) : T[i].op = "FLUSH" /\ T[i].error = "none"

\* A returned call with three flushes between its BEGIN and its COMMIT.
C5_Witness ==
    /\ lpc = "returned"
    /\ Len(CallFlushes) = 3
    /\ Len(CallTrace) = 5

\* C6: after the load and its repetition have both returned, the table
\* holds the rows it held after the first load.
C6_LoadTwiceSameAsOnce ==
    (/\ Len(results) = 2
     /\ results[1].outcome = "returned"
     /\ results[2].outcome = "returned") =>
        results[2].after = results[1].after

\* C7: a call that returns, returns the number of rows of the DataFrame,
\* which is the sum of the sizes of its flushes and at least the number of
\* rows the call added to the table.
C7_ReturnsRowsSubmitted ==
    lpc = "returned" =>
        /\ count_inserted = Len(df)
        /\ count_inserted = SumOfSizes(CallFlushes)
        /\ results[Len(results)].value = count_inserted
        /\ count_inserted >=
              Len(conn.rows[insert_table]) - Len(at_entry[insert_table])

\* A returned call that submitted more rows than it added: duplicate keys
\* were dropped.
C7_Witness ==
    /\ lpc = "returned"
    /\ Len(CallFlushes) >= 2
    /\ count_inserted > Len(conn.rows[insert_table]) - Len(at_entry[insert_table])

\* The order of the entities that C8 states.
C8_Order == <<Address, Customer, SalesDocument, SalesDocumentItem>>

C8_Position(t) == CHOOSE i \in 1..Len(C8_Order) : C8_Order[i] = t

C8_LoadOps == {"READ", "BEGIN", "FLUSH", "COMMIT", "ROLLBACK"}

\* A read or a load failed at this event.
C8_Failure(e) == e.op \in C8_LoadOps /\ (e.error # "none" \/ e.op = "ROLLBACK")

\* C8: the reads and the store operations of the loads follow the order
\* Address, Customer, SalesDocument, SalesDocumentItem; an entity is read only
\* after the load of the entity before it has committed; after a failed read
\* or load there is no further read, BEGIN or flush; and when the script has
\* ended on such a failure the error is in flight and the tables of the later
\* entities are empty. The trace only grows, so each operation is compared
\* with those before it in the state in which it is the latest.
C8_OrderAndFailFast ==
    LET n == Len(trace)
        last == trace[n]
    IN  (n > 0 /\ last.op \in C8_LoadOps) =>
        /\ \A i \in 1..(n - 1) :
              trace[i].op \in C8_LoadOps =>
                  /\ C8_Position(trace[i].t) <= C8_Position(last.t)
                  /\ C8_Failure(trace[i]) => last.op \notin {"READ", "BEGIN", "FLUSH"}
        /\ (last.op = "READ" /\ C8_Position(last.t) > 1) =>
              \E i \in 1..(n - 1) :
                  trace[i] = Event("COMMIT", C8_Order[C8_Position(last.t) - 1],
                                   0, "none")
        /\ (Crashed /\ C8_Failure(last)) =>
              /\ exc # "none"
              /\ \A k \in 1..Len(C8_Order) :
                    k > C8_Position(last.t) =>
                        /\ conn.rows[C8_Order[k]] = <<>>
                        /\ conn.committed[C8_Order[k]] = <<>>

\* The script ended on a failed load of I_Customer after the load of
\* I_AddrOrgNamePostalAddress had committed rows.
C8_Witness ==
    /\ Crashed
    /\ trace[Len(trace)] = Event("ROLLBACK", Customer, 0, "none")
    /\ conn.committed[Address] # <<>>
    /\ conn.committed[SalesDocument] = <<>>

\* C9: when the script has ended, normally or on an error, conn.close() has
\* been executed and the connection is closed.
C9_ConnectionClosedAtEnd ==
    (pc = "done" \/ Crashed) =>
        /\ ~conn.open
        /\ \E i \in 1..Len(trace) : trace[i].op = "CLOSE"

\* The <<referencing table, referenced table>> pairs that C10 names.
C10_References ==
    {<<Customer, Address>>, <<SalesDocumentItem, Customer>>,
     <<SalesDocumentItem, SalesDocument>>}

\* The trace only grows: each schema statement is compared with those before
\* it in the state in which it is the latest.
C10_DropsBeforeCreates ==
    (trace # <<>> /\ trace[Len(trace)].op = "DROP") =>
        \A i \in 1..(Len(trace) - 1) : trace[i].op # "CREATE"

C10_ChildrenDroppedFirst ==
    \A ref \in C10_References :
        (trace # <<>> /\ trace[Len(trace)].op = "DROP"
                      /\ trace[Len(trace)].t = ref[2]) =>
            \E i \in 1..(Len(trace) - 1) :
                trace[i].op = "DROP" /\ trace[i].t = ref[1]

\* C10 as stated: all drops precede all creates, every referencing table is
\* dropped before the table it references, and every referenced table is
\* created before every table that references it.
C10_ParentsCreatedFirst ==
    /\ C10_DropsBeforeCreates
    /\ C10_ChildrenDroppedFirst
    /\ \A ref \in C10_References :
          (trace # <<>> /\ trace[Len(trace)].op = "CREATE"
                        /\ trace[Len(trace)].t = ref[1]) =>
              \E i \in 1..(Len(trace) - 1) :
                  trace[i].op = "CREATE" /\ trace[i].t = ref[2]

\* C10 amended: all drops precede all creates, every referencing table is
\* dropped before the table it references, the tables are created in the
\* order I_SalesDocument, I_SalesDocumentItem, I_Customer,
\* I_AddrOrgNamePostalAddress, no statement of the schema step raises, and
\* once the step is over the four tables exist and are empty.
C10_SchemaOrder ==
    LET creates == SelectSeq(trace, LAMBDA e : e.op = "CREATE")
        order == <<SalesDocument, SalesDocumentItem, Customer, Address>>
    IN  /\ C10_DropsBeforeCreates
        /\ C10_ChildrenDroppedFirst
        /\ Len(creates) <= Len(order)
        /\ \A i \in 1..Len(creates) : creates[i].t = order[i]
        /\ (trace # <<>> /\ trace[Len(trace)].op \in {"DROP", "CREATE"}) =>
              trace[Len(trace)].error = "none"
        /\ (pc \notin {"connect", "schema"}) =>
              (Len(creates) = Len(order) /\ conn.exists = TableNames)
        /\ (pc = "commit" \/ (pc \in {"read", "call"} /\ step = 1)) =>
              (conn.rows = EmptyTables /\ conn.committed = EmptyTables)

\* I_AddrOrgNamePostalAddress is about to be dropped while it still holds a
\* row of an earlier run, the tables referencing it having been dropped.
C10_Witness ==
    /\ pc = "schema"
    /\ step = 4
    /\ conn.rows[Address] # <<>>
    /\ conn.exists = {Address}

\* The events of the current call with the given operation name.
CallOps(op) == SelectSeq(CallTrace, LAMBDA e : e.op = op)

\* C11: a call with a DataFrame of zero rows makes no flush; it executes
\* BEGIN TRANSACTION, and the COMMIT it then reaches finds the transaction
\* open, so that it does not raise by the code's doing; the call executes no
\* ROLLBACK unless the store itself failed the COMMIT; and when it has
\* returned its store operations are exactly one BEGIN and one COMMIT and it
\* returned 0.
C11_EmptyBuffer ==
    (df = <<>> /\ lpc # "idle") =>
        /\ CallFlushes = <<>>
        /\ CallBegan
        /\ Len(CallOps("BEGIN")) = 1
        /\ lpc \notin {"flush"}
        /\ (lpc = "commit" => ExecCommit(conn).error = "none")
        /\ (CallOps("ROLLBACK") # <<>> =>
               \E i \in 1..Len(CallTrace) :
                   CallTrace[i] = Event("COMMIT", insert_table, 0, "OperationalError"))
        /\ (lpc = "returned" =>
               /\ CallTrace = <<Event("BEGIN", insert_table, 0, "none"),
                                Event("COMMIT", insert_table, 0, "none")>>
               /\ count_inserted = 0
               /\ results[Len(results)].value = 0
               /\ results[Len(results)].outcome = "returned"
               /\ conn.rows = at_entry)

\* A call with an empty DataFrame has returned 0 after its BEGIN and COMMIT.
C11_Witness ==
    /\ lpc = "returned"
    /\ df = <<>>
    /\ Len(CallTrace) = 2
    /\ results[Len(results)].value = 0

\* The <<referencing table, column, referenced table, key column>> tuples
\* that C12 names.
C12_References ==
    {<<Customer, "ADDRESSID", Address, "ADDRESSID">>,
     <<SalesDocumentItem, "SOLDTOPARTY", Customer, "CUSTOMER">>,
     <<SalesDocumentItem, "SHIPTOPARTY", Customer, "CUSTOMER">>,
     <<SalesDocumentItem, "BILLTOPARTY", Customer, "CUSTOMER">>,
     <<SalesDocumentItem, "PAYERPARTY", Customer, "CUSTOMER">>,
     <<SalesDocumentItem, "SALESDOCUMENT", SalesDocument, "SALESDOCUMENT">>}

\* Every value present in a referencing column of the tables "child" exists
\* as a key of the referenced table in the tables "parent".
C12_Resolved(child, parent) ==
    \A ref \in C12_References :
        \A i \in 1..Len(child[ref[1]]) :
            child[ref[1]][i][ref[2]] # NULL =>
                \E j \in 1..Len(parent[ref[3]]) :
                    parent[ref[3]][j][ref[4]] = child[ref[1]][i][ref[2]]

\* C12: after a run that completes, every ADDRESSID value present in
\* I_Customer is a key of I_AddrOrgNamePostalAddress, every party value
\* present in I_SalesDocumentItem is a key of I_Customer and every
\* SALESDOCUMENT value present in it is a key of I_SalesDocument; and when a
\* flush into a table has just succeeded, the load of every table it
\* references has committed before, and the rows its rows reference are
\* committed rows.
C12_ReferentialLoadOrder ==
    /\ pc \in {"close", "done"} =>
          /\ C12_Resolved(conn.rows, conn.rows)
          /\ C12_Resolved(conn.committed, conn.committed)
    /\ (/\ pc = "in_call"
        /\ trace[Len(trace)].op = "FLUSH"
        /\ trace[Len(trace)].error = "none") =>
          /\ C12_Resolved([EmptyTables EXCEPT
                              ![insert_table] = conn.rows[insert_table]],
                          conn.committed)
          /\ \A ref \in C12_References :
                ref[1] = insert_table =>
                    \E i \in 1..(Len(trace) - 1) :
                        trace[i] = Event("COMMIT", ref[3], 0, "none")

\* A completed run that loaded a customer with an address and an item with
\* its sales document and all four parties.
C12_Witness ==
    /\ pc = "done"
    /\ \E i \in 1..Len(conn.committed[Customer]) :
          conn.committed[Customer][i].ADDRESSID # NULL
    /\ \E i \in 1..Len(conn.committed[SalesDocumentItem]) :
          /\ conn.committed[SalesDocumentItem][i].SALESDOCUMENT # NULL
          /\ \A c \in PartyColumns : conn.committed[SalesDocumentItem][i][c] # NULL

\* C13: whatever the store held before the run - nothing, the tables of a
\* complete, failed or interrupted earlier run, rows with dangling
\* references - no statement of the schema step raises and after the step the
\* four tables exist and each is empty; and when a second run over the same
\* source files has completed, every table holds the rows it held when the
\* first run had completed.
C13_CleanSlate ==
    /\ (trace # <<>> /\ trace[Len(trace)].op \in {"DROP", "CREATE"}) =>
          trace[Len(trace)].error = "none"
    /\ (pc = "commit" \/ (pc \in {"read", "call"} /\ step = 1)) =>
          /\ conn.exists = TableNames
          /\ conn.rows = EmptyTables
          /\ conn.committed = EmptyTables
    /\ (Run = 1 /\ pc \in {"close", "done"}) =>
          /\ Len(results) = Len(LoadOrder)
          /\ \A k \in 1..Len(LoadOrder) :
                /\ results[k].t = LoadOrder[k]
                /\ conn.committed[LoadOrder[k]] = results[k].after
    /\ (Run = 2 /\ pc \in {"close", "done"}) =>
          /\ Len(results) = 2 * Len(LoadOrder)
          /\ \A k \in 1..Len(LoadOrder) :
                /\ results[k + Len(LoadOrder)].t = LoadOrder[k]
                /\ results[k + Len(LoadOrder)].df = results[k].df
                /\ results[k + Len(LoadOrder)].after = results[k].after
                /\ conn.committed[LoadOrder[k]] = results[k].after
                /\ conn.rows[LoadOrder[k]] = results[k].after

\* A second run has completed over files that hold a customer and an item.
C13_Witness ==
    /\ Run = 2
    /\ pc = "done"
    /\ conn.committed[Customer] # <<>>
    /\ conn.committed[SalesDocumentItem] # <<>>

\* The full result of loading DataFrame d into the empty table t.
C14_FullLoad(t, d) == InsertRows(EmptyTables, FALSE, t, d, 1, 0).rows[t]

\* C14: in every state after the schema step, and so at the end of a run
\* however it ended, a table whose load returned holds the full result of
\* its load, in the store as in the open connection, and every other table -
\* not loaded yet, or its load raised after any number of flushes - holds no
\* rows; a load that raised has left the tables loaded before it as they
\* were.
C14_PerTableAtomicity ==
    (pc \notin {"connect", "schema"}) =>
        /\ \A k \in 1..Len(results) :
              IF results[k].outcome = "returned"
              THEN /\ results[k].after = C14_FullLoad(results[k].t, results[k].df)
                   /\ conn.committed[results[k].t] = results[k].after
                   /\ (lpc # "except" => conn.rows[results[k].t] = results[k].after)
              ELSE /\ conn.committed[results[k].t] = <<>>
                   /\ conn.rows[results[k].t] = <<>>
        /\ \A t \in TableNames :
              (\A k \in 1..Len(results) : results[k].t # t) =>
                  conn.committed[t] = <<>>
        /\ Crashed => conn.rows = conn.committed

\* The run ended on a load of I_Customer that raised in its second flush,
\* its first flush having written a row, after I_AddrOrgNamePostalAddress
\* was loaded.
C14_Witness ==
    /\ Crashed
    /\ insert_table = Customer
    /\ Len(CallFlushes) = 2
    /\ CallFlushes[1].error = "none"
    /\ CallFlushes[2].error # "none"
    /\ conn.committed[Address] # <<>>
    /\ conn.committed[Customer] = <<>>

\* The number of events of the trace with one of the given operation names
\* that succeeded.
C15_Succeeded(ops) ==
    Cardinality({i \in 1..Len(trace) :
                    trace[i].op \in ops /\ trace[i].error = "none"})

\* C15: the transactions begun and not yet ended number 0 or 1, and the
\* connection is in a transaction exactly when they number 1; no BEGIN
\* TRANSACTION has raised, and none is executed while a transaction is open
\* (none is open when a file is read or a load is called, after the schema
\* step as after a load); COMMIT and ROLLBACK are reached only with a
\* transaction open, and no ROLLBACK has raised.
C15_NoOverlappingTransactions ==
    LET open == C15_Succeeded({"BEGIN"}) - C15_Succeeded({"COMMIT", "ROLLBACK"})
    IN  /\ open \in {0, 1}
        /\ conn.in_transaction <=> (open = 1)
        /\ \A i \in 1..Len(trace) :
              trace[i].op \in {"BEGIN", "ROLLBACK"} => trace[i].error = "none"
        /\ (pc \in {"read", "call", "close", "done"}) => ~conn.in_transaction
        /\ (lpc \in {"idle", "returned", "raised"}) => ~conn.in_transaction
        /\ (lpc \in {"loop", "flush", "leftover", "commit", "except"}) =>
              conn.in_transaction

\* The load of I_Customer is about to execute BEGIN TRANSACTION after the
\* load of I_AddrOrgNamePostalAddress committed rows.
C15_Witness ==
    /\ pc = "call"
    /\ step = 2
    /\ ~conn.in_transaction
    /\ conn.committed[Address] # <<>>

\* The batches passed to the flushes, concatenated in flush order.
RECURSIVE C16_Concat(_)
C16_Concat(flushes) ==
    IF flushes = <<>> THEN <<>>
    ELSE Head(flushes).batch \o C16_Concat(Tail(flushes))

\* C16: while no operation of a call has failed, the rows submitted by its
\* flushes so far, then the rows in the buffer, then the rows not yet
\* iterated, are the source row sequence exactly; the buffer holds only rows
\* not submitted yet, so it is empty right after every flush; and when the
\* call has returned the batches concatenated in flush order are the source
\* rows, each at its position once, and the buffer is empty.
C16_BatchesAreTheRows ==
    /\ (lpc \in {"loop", "flush", "leftover", "commit", "returned"}) =>
          /\ C16_Concat(CallFlushes) \o buffer \o all_rows = df
          /\ (Len(C16_Concat(CallFlushes)) + Len(all_rows) = Len(df)) =>
                buffer = <<>>
    /\ lpc = "returned" =>
          /\ C16_Concat(CallFlushes) = df
          /\ buffer = <<>>
          /\ all_rows = <<>>

\* A returned call that passed three different rows in two batches.
C16_Witness ==
    /\ lpc = "returned"
    /\ Len(df) = 3
    /\ Cardinality({df[i] : i \in 1..3}) = 3
    /\ Len(CallFlushes) = 2
    /\ CallFlushes[1].batch = SubSeq(df, 1, 2)
    /\ CallFlushes[2].batch = SubSeq(df, 3, 3)

\* The rows of DataFrame d that are the first of their primary key in d.
C17_FirstOccurrences(t, d) ==
    LET first(i) == \A j \in 1..(i - 1) : KeyOf(t, d[j]) # KeyOf(t, d[i])
        RECURSIVE keep(_)
        keep(i) == IF i > Len(d) THEN <<>>
                   ELSE IF first(i) THEN <<d[i]>> \o keep(i + 1)
                   ELSE keep(i + 1)
    IN  keep(1)

\* C17: when a call on an empty table has returned, the table holds one row
\* for each distinct primary key of the source rows, the first row with that
\* key in source order, and those rows in that order, whatever the chunk
\* size.
C17_FirstOccurrenceWins ==
    (lpc = "returned" /\ at_entry[insert_table] = <<>>) =>
        /\ conn.rows[insert_table] = C17_FirstOccurrences(insert_table, df)
        /\ \A i, j \in 1..Len(conn.rows[insert_table]) :
              KeyOf(insert_table, conn.rows[insert_table][i])
                  = KeyOf(insert_table, conn.rows[insert_table][j]) => i = j

\* Every non-null value in a referencing column of the row of table t is a
\* key of the referenced table.
C18_Refers(rows, t, row) ==
    \A ref \in C12_References :
        (ref[1] = t /\ row[ref[2]] # NULL) =>
            \E j \in 1..Len(rows[ref[3]]) : rows[ref[3]][j][ref[4]] = row[ref[2]]

\* No row of the given tables has a non-null foreign-key value without the
\* row it refers to.
C18_NoOrphan(rows) ==
    \A t \in TableNames :
        \A i \in 1..Len(rows[t]) : C18_Refers(rows, t, rows[t][i])

\* Once the schema step is over no orphan is in the store, committed or
\* not; and a load that has left with an IntegrityError has executed
\* ROLLBACK, left its table empty, and ended the run.
C18_NoOrphanCommitted ==
    /\ (pc \notin {"connect", "schema"}) =>
          /\ C18_NoOrphan(conn.committed)
          /\ C18_NoOrphan(conn.rows)
    /\ (pc = "in_call" /\ lpc = "raised" /\ exc = "IntegrityError") =>
          /\ trace[Len(trace)] = Event("ROLLBACK", insert_table, 0, "none")
          /\ conn.rows[insert_table] = <<>>
          /\ conn.committed[insert_table] = <<>>
          /\ Crashed

\* The latest operation is a flush that succeeded.
C18_Flushed ==
    /\ pc = "in_call"
    /\ trace[Len(trace)].op = "FLUSH"
    /\ trace[Len(trace)].error = "none"

\* C18 as stated: no orphan is ever committed, and a flush that succeeded
\* held no row whose referenced key is absent - such a flush raises.
C18_OrphanFlushRaises ==
    /\ C18_NoOrphanCommitted
    /\ C18_Flushed =>
          \A i \in 1..Len(trace[Len(trace)].batch) :
              C18_Refers(conn.rows, insert_table, trace[Len(trace)].batch[i])

\* C18 amended: no orphan is ever committed; a flush that succeeded held no
\* row whose referenced key is absent other than rows whose primary key,
\* without a NULL in it, was already in the table - rows that INSERT OR
\* IGNORE skips as duplicates before it looks at their references, and that
\* are not stored.
C18_OrphanFlushRaisesUnlessDuplicate ==
    /\ C18_NoOrphanCommitted
    /\ C18_Flushed =>
          \A i \in 1..Len(trace[Len(trace)].batch) :
              LET row == trace[Len(trace)].batch[i] IN
              \/ C18_Refers(conn.rows, insert_table, row)
              \/ /\ ~KeyHasNull(KeyOf(insert_table, row))
                 /\ \E j \in 1..Len(conn.rows[insert_table]) :
                       /\ KeyOf(insert_table, conn.rows[insert_table][j])
                             = KeyOf(insert_table, row)
                       /\ conn.rows[insert_table][j] # row

\* The run ended on a load of I_SalesDocumentItem whose second flush held an
\* item of a sales document that does not exist: IntegrityError, ROLLBACK,
\* with customers committed before.
C18_Witness ==
    /\ Crashed
    /\ exc = "IntegrityError"
    /\ insert_table = SalesDocumentItem
    /\ Len(CallFlushes) = 2
    /\ conn.committed[Customer] # <<>>
    /\ conn.committed[SalesDocument] = <<>>
====
